---------------------------- MODULE Spec2Model ----------------------------
(***************************************************************************)
(* Verification model of the country directory: the data models (DTO) of   *)
(* src/collectors/models.py, the renderer of src/renderer.py and the       *)
(* collectors exercised by src/tests.                                      *)
(*                                                                         *)
(* The DTOs are pydantic (1.x API: `validator`) models.  A model class is  *)
(* modelled by its construction (field validation in declaration order),   *)
(* its attribute assignment, its equality and its hash.                    *)
(*                                                                         *)
(* The strings of a LocationDTO are sequences of characters, so that len()  *)
(* is Len; the other strings are values that are only compared.            *)
(***************************************************************************)
EXTENDS Integers, Sequences, FiniteSets, TLC

VARIABLES
    \* ---- LocationDTO objects and sets of them (SpecKeys)
    locs,        \* heap: object id -> NoObj or [capital, alpha2code]
    lastOp,      \* the last operation performed and its outcome
    fset,        \* the last frozenset: its table, a sequence of [obj, hash]
    \* ---- construction of NewsDTO and LocationInfoDTO (SpecModels)
    newsArgs,    \* keyword arguments of the last NewsDTO(...) call
    article,     \* the NewsDTO it constructed, or NoObj
    infoArgs,    \* keyword arguments of the last LocationInfoDTO(...) call
    info,        \* the LocationInfoDTO it constructed, or NoObj
    modelOp,     \* the last construction and its outcome
    \* ---- Renderer (SpecRender)
    location_info,  \* Renderer.location_info
    rendered,       \* what the last render() returned or raised, or NoObj
    ratesText,      \* what the last _format_currency_rates() returned, or NoObj
    \* ---- collectors and their cache (SpecCollect)
    cacheFile,      \* the JSON document at CurrencyRatesCollector.get_file_path()
    readResult,     \* what the last CurrencyRatesCollector.read() returned or raised
    weatherCache,   \* the weather cache: location -> payload, or NoObj
    fetched,        \* the payloads the last WeatherCollector.collect fetched
    collectResult   \* what the last WeatherCollector.collect returned or raised

keyVars == <<locs, lastOp, fset>>
modelVars == <<newsArgs, article, infoArgs, info, modelOp>>

renderVars == <<location_info, rendered, ratesText>>

collectVars == <<cacheFile, readResult, weatherCache, fetched, collectResult>>

vars == <<keyVars, modelVars, renderVars, collectVars>>

-----------------------------------------------------------------------------
(* Bounds *)

MaxNews == 2       \* articles in the news of an aggregate
MaxRates == 2      \* entries of currency_rates
MaxObjs == 2       \* LocationDTO objects alive at once
MaxSeq == 2        \* length of a sequence handed to frozenset()
HashSpace == 3     \* number of distinct hash values (collisions happen)

(* Values *)

NoObj == [none |-> TRUE]    \* an empty slot of the heap
Missing == [tag |-> "missing"]     \* a keyword argument that was not passed
None == [tag |-> "None"]           \* Python's None
Str(s) == [tag |-> "str", val |-> s]
List(items) == [tag |-> "list", items |-> items]
Mapping(items) == [tag |-> "dict", items |-> items]  \* items: <<key, value>> in order
Datetime(d, h, m, sec) ==
    [tag |-> "datetime", date |-> d, hour |-> h, minute |-> m, second |-> sec]

Capitals == {<<"M">>, <<"A">>}
\* country codes handed to the constructor: lengths 0 to 3
Codes == {<<>>, <<"R">>, <<"R", "U">>, <<"R", "U", "S">>}
\* country codes assigned to a field of a live object
AssignedCodes == {<<"R", "U">>, <<"R", "U", "S">>}

ObjIds == 1..MaxObjs

Range(s) == {s[i] : i \in DOMAIN s}

SeqsUpTo(S, n) == UNION {[1..k -> S] : k \in 0..n}

-----------------------------------------------------------------------------
(* pydantic field validation, as NewsDTO and LocationInfoDTO use it.       *)
(* A field is described by: required (no default), allow_none (Optional),  *)
(* the tag of the values its type accepts, and its class validator.        *)

Ok(v) == [err |-> FALSE, val |-> v]
Err == [err |-> TRUE, val |-> None]

\* NewsDTO.validate_author, models.py 192-196
validate_author(value) ==
    IF value = None \/ value = Str("") THEN Str("unknown") ELSE value

\* the fields of NewsDTO in declaration order, models.py 184-189
NewsFields == <<"title", "author", "description", "source", "url", "published_at">>
NewsRequired(f) == f # "author"           \* author: Optional[str]
NewsAllowNone(f) == f = "author"
NewsTypeTag(f) == IF f = "published_at" THEN "datetime" ELSE "str"
\* @validator("author"): runs on a supplied value, after the type validation
NewsValidator(f, v) == IF f = "author" THEN validate_author(v) ELSE v

\* validation of one field of NewsDTO.  A field that was not supplied takes
\* its default without running the validator (the validator is not declared
\* always=True).
ValidateNewsField(f, v) ==
    IF v = Missing
    THEN IF NewsRequired(f) THEN Err ELSE Ok(None)
    ELSE IF v = None
    THEN IF NewsAllowNone(f) THEN Ok(NewsValidator(f, None)) ELSE Err
    ELSE IF v.tag = NewsTypeTag(f) THEN Ok(NewsValidator(f, v)) ELSE Err

NewsArgSets ==
    [title : {Missing, Str("t1")},
     author : {Missing, None, Str(""), Str("Ion")},
     description : {Str("d")},
     source : {Str("s")},
     url : {Str("u")},
     published_at : {None, Datetime("30.03.2023", 12, 42, 34)}]

\* NewsDTO(**kwargs): every field is validated; any error rejects the call
NewNewsDTO ==
    \E kw \in NewsArgSets :
        LET res == [f \in Range(NewsFields) |-> ValidateNewsField(f, kw[f])]
        IN  /\ newsArgs' = kw
            /\ IF \E f \in Range(NewsFields) : res[f].err
               THEN /\ article' = NoObj
                    /\ modelOp' = "NewsDTO:ValidationError"
               ELSE /\ article' = [f \in Range(NewsFields) |-> res[f].val]
                    /\ modelOp' = "NewsDTO:ok"
            /\ UNCHANGED <<infoArgs, info>>

\* the fields of LocationInfoDTO in declaration order, models.py 264-267
InfoFields == <<"location", "weather", "currency_rates", "news">>
\* a mutant of InfoRequired: currency_rates declared with a default
InfoRequiredWithoutRates(f) == f \in {"location", "weather"}
InfoRequired(f) == f # "news"             \* news: Optional[list[NewsDTO]]
InfoAllowNone(f) == f = "news"
InfoTypeTag(f) ==
    CASE f = "location" -> "CountryDTO"
      [] f = "weather" -> "WeatherInfoDTO"
      [] f = "currency_rates" -> "dict"
      [] f = "news" -> "list"

ValidateInfoField(f, v) ==
    IF v = Missing
    THEN IF InfoRequired(f) THEN Err ELSE Ok(None)
    ELSE IF v = None
    THEN IF InfoAllowNone(f) THEN Ok(None) ELSE Err
    ELSE IF v.tag = InfoTypeTag(f) THEN Ok(v) ELSE Err

\* CountryDTO, models.py 104-116, and WeatherInfoDTO, models.py 157-164
CountryDTO(timezones, languages, population, area) ==
    [tag |-> "CountryDTO", name |-> "Aland Islands", capital |-> "Mariehamn",
     alpha2code |-> "AX", capital_latitude |-> 19, capital_longitude |-> 60,
     capital_area |-> area, subregion |-> "Northern Europe",
     population |-> population, languages |-> languages,
     timezones |-> timezones]

WeatherInfoDTO(date_time) ==
    [tag |-> "WeatherInfoDTO", temp |-> 13, pressure |-> 1023, humidity |-> 54,
     wind_speed |-> 4, description |-> "scattered clouds",
     visibility |-> 10000, timezone |-> 3600, date_time |-> date_time]

Swedish == [name |-> "Swedish", native_name |-> "svenska"]
Finnish == [name |-> "Finnish", native_name |-> "suomi"]

InfoArgSets ==
    [location : {Missing, None,
                 CountryDTO(<<"UTC+02:00">>, {Swedish}, 28875, 1580)},
     weather : {Missing, None, WeatherInfoDTO(Datetime("30.03.2023", 12, 23, 34))},
     currency_rates : {Missing, None, Mapping(<<>>),
                       Mapping(<<<<"EUR", [num |-> 16503, den |-> 1000000]>>>>)},
     news : {Missing, None, List(<<>>)}
            \cup (IF article = NoObj THEN {} ELSE {List(<<article>>)})]

\* LocationInfoDTO(**kwargs)
NewLocationInfoDTO ==
    \E kw \in InfoArgSets :
        LET res == [f \in Range(InfoFields) |-> ValidateInfoField(f, kw[f])]
        IN  /\ infoArgs' = kw
            /\ IF \E f \in Range(InfoFields) : res[f].err
               THEN /\ info' = NoObj
                    /\ modelOp' = "LocationInfoDTO:ValidationError"
               ELSE /\ info' = [f \in Range(InfoFields) |-> res[f].val]
                    /\ modelOp' = "LocationInfoDTO:ok"
            /\ UNCHANGED <<newsArgs, article>>

InitModels ==
    /\ newsArgs = NoObj
    /\ article = NoObj
    /\ infoArgs = NoObj
    /\ info = NoObj
    /\ modelOp = "none"

-----------------------------------------------------------------------------
(* LocationDTO: models.py 10-32 *)

\* Field(min_length=2, max_length=2) on `alpha2code: str`
Alpha2codeMinLength == 2
Alpha2codeMaxLength == 2

\* the constraint validators of the field alpha2code
ValidAlpha2code(v) ==
    /\ Len(v) >= Alpha2codeMinLength
    /\ Len(v) <= Alpha2codeMaxLength

Allocated == {i \in ObjIds : locs[i] # NoObj}

\* hash() of a str: a function of the characters alone
CharCode(c) ==
    CASE c = "A" -> 1 [] c = "M" -> 2 [] c = "R" -> 3
      [] c = "S" -> 4 [] c = "U" -> 5 [] OTHER -> 6

RECURSIVE StrHash(_)
StrHash(s) ==
    IF s = <<>> THEN 0
    ELSE (31 * StrHash(SubSeq(s, 1, Len(s) - 1)) + CharCode(s[Len(s)])) % HashSpace

\* hash() of a tuple: combines the hashes of its items in order
RECURSIVE TupleHash(_)
TupleHash(t) ==
    IF t = <<>> THEN 1
    ELSE (7 * TupleHash(SubSeq(t, 1, Len(t) - 1)) + t[Len(t)]) % HashSpace

\* hash(type(self)): one value per class
TypeHash == 2

\* a mutant of Hash: the identity hash of object, which ignores the fields
HashOfIdentity(i) == i % HashSpace

\* HashableBaseModel.__hash__:
\*   hash((type(self),) + tuple(self.__dict__.values()))
Hash(i) ==
    TupleHash(<<TypeHash, StrHash(locs[i].capital), StrHash(locs[i].alpha2code)>>)

\* BaseModel.__eq__ of two models: self.dict() == other.dict()
Dict(i) == [capital |-> locs[i].capital, alpha2code |-> locs[i].alpha2code]
Eq(i, j) == Dict(i) = Dict(j)

\* set lookup (`location in locations`): an entry with the same stored hash whose key is the object
\* itself or equal to it
Contains(table, i) ==
    \E e \in DOMAIN table :
        /\ table[e].hash = Hash(i)
        /\ (table[e].obj = i \/ Eq(table[e].obj, i))

SetAdd(table, i) ==
    IF Contains(table, i) THEN table
    ELSE Append(table, [obj |-> i, hash |-> Hash(i)])

\* frozenset(iterable): adds the items one by one
RECURSIVE Frozenset(_)
Frozenset(s) ==
    IF s = <<>> THEN <<>>
    ELSE SetAdd(Frozenset(SubSeq(s, 1, Len(s) - 1)), s[Len(s)])

\* LocationDTO(capital=..., alpha2code=...): validation, then a new object
NewLocationDTO ==
    \E capital \in Capitals, alpha2code \in Codes :
        /\ IF ValidAlpha2code(alpha2code)
           THEN /\ \E i \in ObjIds :
                     /\ locs[i] = NoObj
                     /\ \A j \in ObjIds : j < i => locs[j] # NoObj
                     /\ locs' = [locs EXCEPT ![i] =
                             [capital |-> capital, alpha2code |-> alpha2code]]
                /\ lastOp' = "new"
           ELSE /\ locs' = locs
                /\ lastOp' = "ValidationError"
        /\ UNCHANGED fset

\* BaseModel.__setattr__ under the default Config of LocationDTO (no
\* allow_mutation = False, no validate_assignment): the value is stored as is
SetAttr ==
    \E i \in Allocated :
        /\ \/ \E v \in Capitals : locs' = [locs EXCEPT ![i].capital = v]
           \/ \E v \in AssignedCodes : locs' = [locs EXCEPT ![i].alpha2code = v]
        /\ lastOp' = "setattr"
        /\ UNCHANGED fset

\* frozenset([location, ...]) as in the tests
NewFrozenset ==
    \E s \in SeqsUpTo(Allocated, MaxSeq) :
        /\ fset' = Frozenset(s)
        /\ lastOp' = "frozenset"
        /\ UNCHANGED locs

\* collect(locations) of a per-location provider: one dispatch for each
\* element of the set, in the set's order
Dispatch(table) == [e \in DOMAIN table |-> Dict(table[e].obj)]

-----------------------------------------------------------------------------
(* Renderer: renderer.py.  Text is modelled by its parts: a formatted cell  *)
(* is a record of the values it shows, a joined text is the sequence of its *)
(* items with the separators between them.  The Russian labels of the      *)
(* source are written in Latin letters.                                    *)

\* a float is the binary64 nearest to the decimal literal num/den it was
\* parsed from (den a power of ten); binary64 has a 53-bit significand
SignificandBits == 53

RECURSIVE ScaleUp(_, _)
\* the least s with num * 2^s >= den, for 0 < num < den
ScaleUp(num, den) == IF num >= den THEN 0 ELSE 1 + ScaleUp(2 * num, den)

RECURSIVE ScaleDown(_, _)
\* the greatest t with den * 2^t <= num, for num >= den
ScaleDown(num, den) == IF 2 * den > num THEN 0 ELSE 1 + ScaleDown(num, 2 * den)

\* floor(log2(num/den)), for num > 0
Exponent(num, den) ==
    IF num < den THEN 0 - ScaleUp(num, den) ELSE ScaleDown(num, den)

RECURSIVE ShiftMod(_, _, _)
\* (r * 2^e) mod den
ShiftMod(r, e, den) ==
    IF e = 0 THEN r % den
    ELSE IF e >= 8 THEN ShiftMod((256 * r) % den, e - 8, den)
    ELSE ShiftMod((2 * r) % den, e - 1, den)

\* the sign of float(num/den) - num/den: the significand is num/den scaled to
\* [2^52, 2^53) and rounded to the nearest integer; the remainder of the
\* scaled value decides the direction (it is never exactly one half here,
\* as the scaled numerator is a multiple of 8 and den/2 is not)
FloatError(x) ==
    IF x.num = 0 THEN 0
    ELSE LET e == (SignificandBits - 1) - Exponent(x.num, x.den)
             r == ShiftMod(x.num, e, x.den)
         IN  IF r = 0 THEN 0 ELSE IF 2 * r < x.den THEN 0 - 1 ELSE 1

\* Decimal(rates).quantize(exp=Decimal('.01'), rounding=ROUND_HALF_UP), in
\* hundredths: Decimal(float) is the exact binary value, which is then
\* rounded half-up to two places
Quantize(x) ==
    LET h == x.den \div 100
        q == x.num \div h
        m == x.num % h
    IN  IF 2 * m < h THEN q
        ELSE IF 2 * m > h THEN q + 1
        ELSE IF FloatError(x) < 0 THEN q ELSE q + 1

\* half-up rounding of the decimal value num/den itself, in hundredths
HalfUpOfDecimal(x) ==
    LET h == x.den \div 100
    IN  IF 2 * (x.num % h) >= h THEN (x.num \div h) + 1 ELSE x.num \div h

Sep(text) == [sep |-> text]

\* sep.join(items)
RECURSIVE Join(_, _)
Join(sep, items) ==
    IF Len(items) <= 1 THEN items
    ELSE Join(sep, SubSeq(items, 1, Len(items) - 1)) \o <<Sep(sep), items[Len(items)]>>

\* f"{currency} = {...} rub."
RateCell(currency, cents) == [currency |-> currency, cents |-> cents, unit |-> "rub."]

\* Renderer._format_currency_rates, renderer.py 139-149
format_currency_rates(currency_rates) ==
    Join(", ", [i \in DOMAIN currency_rates.items |->
                   RateCell(currency_rates.items[i][1],
                            Quantize(currency_rates.items[i][2]))])

\* "{:,}".format(n).replace(",", "."): the groups of three digits
RECURSIVE DigitGroups(_)
DigitGroups(n) ==
    IF n < 1000 THEN <<n>> ELSE Append(DigitGroups(n \div 1000), n % 1000)

\* Renderer._format_population, renderer.py 129-137
format_population(population) == [groups |-> DigitGroups(population), sep |-> "."]

\* the orders in which a set can be iterated
Orders(S) == {o \in [1..Cardinality(S) -> S] : Range(o) = S}

\* Renderer._format_languages, renderer.py 117-127, the set iterated in order o
format_languages(o) ==
    Join(", ", [i \in DOMAIN o |-> [name |-> o[i].name, native |-> o[i].native_name]])

\* strftime("%d.%m.%Y %H:%M"): the seconds are not shown
Strftime(dt) == [date |-> dt.date, hour |-> dt.hour, minute |-> dt.minute]

\* f"{value}" of a str or of None
Format(v) == IF v = None THEN "None" ELSE v.val

InfoFieldNames ==
    <<"Strana", "Stolitsa", "Shirota", "Dolgota", "Region", "Naselenie strany",
      "Yazyki", "Ploshchad", "Chasovoy poyas", "Kursy valyut">>
WeatherFieldNames ==
    <<"Temperatura", "Opisanie", "Vidimost", "Skorost vetra",
      "Vremya polucheniya dannykh">>
NewsFieldNames ==
    <<"Istochnik", "Nazvanie", "Avtor", "Ssylka", "Opisanie", "Data publikatsii">>

Table(field_names, rows) == [field_names |-> field_names, rows |-> rows]
Raised(exception) == [raised |-> exception]
Returned(value) == [returned |-> value]

\* the row of info_table, renderer.py 48-61
InfoRow(li, o) ==
    <<[v |-> li.location.name], [v |-> li.location.capital],
      [v |-> li.location.capital_latitude], [v |-> li.location.capital_longitude],
      [v |-> li.location.subregion],
      [v |-> format_population(li.location.population), unit |-> "chel."],
      [v |-> format_languages(o)],
      [v |-> li.location.capital_area, unit |-> "kv. km."],
      [v |-> li.location.timezones[1]],
      [v |-> format_currency_rates(li.currency_rates)]>>

\* the row of weather_table, renderer.py 71-79
WeatherRow(li) ==
    <<[v |-> li.weather.temp, unit |-> "C"], [v |-> li.weather.description],
      [v |-> li.weather.visibility, unit |-> "m."],
      [v |-> li.weather.wind_speed, unit |-> "m/s."],
      [v |-> Strftime(li.weather.date_time)]>>

\* a mutant of NewsRows: the rows in reverse order
NewsRowsReversed(news) ==
    [i \in DOMAIN news |->
        LET a == news[Len(news) + 1 - i]
        IN  <<Format(a.source), Format(a.title), Format(a.author), a.url.val,
              Format(a.description), Strftime(a.published_at)>>]

\* the rows of news_table: one add_row per article, renderer.py 97-107
NewsRows(news) ==
    [i \in DOMAIN news |->
        <<Format(news[i].source), Format(news[i].title), Format(news[i].author),
          news[i].url.val, Format(news[i].description),
          Strftime(news[i].published_at)>>]

\* Renderer.render, renderer.py 26-115
Render ==
    /\ \E o \in Orders(location_info.location.languages) :
         rendered' =
            IF location_info.location.timezones = <<>>
            THEN Raised("IndexError")          \* timezones[0]
            ELSE IF location_info.news = None
            THEN Raised("TypeError")           \* for article in None
            ELSE Returned(
                   <<Table(InfoFieldNames, <<InfoRow(location_info, o)>>),
                     "Pogoda:",
                     Table(WeatherFieldNames, <<WeatherRow(location_info)>>),
                     "Novosti",
                     Table(NewsFieldNames, NewsRows(location_info.news.items))>>)
    /\ UNCHANGED <<location_info, ratesText>>

\* a call of Renderer._format_currency_rates
FormatCurrencyRates ==
    /\ ratesText' = Returned(format_currency_rates(location_info.currency_rates))
    /\ UNCHANGED <<location_info, rendered>>

\* the aggregates that are valid by the data model
Rates == {[num |-> 5, den |-> 1000], [num |-> 15, den |-> 1000],
          [num |-> 125, den |-> 1000], [num |-> 16503, den |-> 1000000]}
Currencies == {"EUR", "USD"}

RateMappings ==
    {Mapping(m) : m \in {m \in SeqsUpTo(Currencies \X Rates, MaxRates) :
                            \A i, j \in DOMAIN m : i # j => m[i][1] # m[j][1]}}

Articles ==
    {[title |-> Str(t), author |-> a, description |-> Str("d"),
      source |-> Str("s"), url |-> Str("u"),
      published_at |-> Datetime("30.03.2023", 12, 42, 34)] :
        t \in {"t1", "t2"}, a \in {None, Str("unknown")}}

Countries ==
    {CountryDTO(<<>>, {Swedish}, 28875, 1580),
     CountryDTO(<<"UTC+02:00">>, {Swedish, Finnish}, 28875, 1580),
     CountryDTO(<<"UTC+02:00", "UTC+03:00">>, {Swedish}, 1234567, None)}

LocationInfos ==
    [location : Countries,
     weather : {WeatherInfoDTO(Datetime("30.03.2023", 12, 23, 34))},
     currency_rates : RateMappings,
     news : {None} \cup {List(n) : n \in SeqsUpTo(Articles, MaxNews)}]

\* Renderer.__init__, renderer.py 17-24
InitRender ==
    /\ location_info \in LocationInfos
    /\ rendered = NoObj
    /\ ratesText = NoObj

NoRenderer ==
    /\ location_info = NoObj
    /\ rendered = NoObj
    /\ ratesText = NoObj

-----------------------------------------------------------------------------
(* Collectors.  collectors/collector.py is not among the sources: the       *)
(* collectors are modelled from the specification (sections 4.1, 6 and 7)   *)
(* and from the calls the tests make.  CurrencyRatesDTO is models.py.       *)

\* a mutant of CurrencyRatesDTO: the base normalised to lower case
CurrencyRatesDTOLowerBase(base, date, rates) ==
    [tag |-> "CurrencyRatesDTO",
     base |-> IF base = "RUB" THEN "rub" ELSE base, date |-> date, rates |-> rates]

\* CurrencyRatesDTO(base=..., date=..., rates=...), models.py 119-136
CurrencyRatesDTO(base, date, rates) ==
    [tag |-> "CurrencyRatesDTO", base |-> base, date |-> date, rates |-> rates]

\* json.dumps of a payload {"base": ..., "date": ..., "rates": {...}}: the
\* document is the sequence of its members, the rates object the sequence of
\* its members
JsonDumps(payload) ==
    <<[key |-> "base", value |-> payload.base],
      [key |-> "date", value |-> payload.date],
      [key |-> "rates", value |-> payload.rates]>>

\* json.loads: the value of a member of the document
Member(doc, key) == (CHOOSE i \in DOMAIN doc : doc[i].key = key)
JsonLoads(doc) ==
    [base |-> doc[Member(doc, "base")].value,
     date |-> doc[Member(doc, "date")].value,
     rates |-> doc[Member(doc, "rates")].value]

\* what the rate source answers: the configured base, the currency codes the
\* source provides, and the rates of the day
SourcePayloads ==
    {[base |-> "RUB", date |-> d,
      rates |-> <<<<"EUR", r1>>, <<"USD", r2>>>>] :
        d \in {"2022-09-14", "2022-09-15"},
        r1 \in {[num |-> 16503, den |-> 1000000], [num |-> 15, den |-> 1000]},
        r2 \in {[num |-> 125, den |-> 1000]}}

\* CurrencyRatesCollector.collect(): fetch, and write the payload to the cache
\* file; an unreachable source is surfaced to the caller
CurrencyCollect ==
    /\ \/ \E payload \in SourcePayloads : cacheFile' = Returned(JsonDumps(payload))
       \/ cacheFile' = cacheFile              \* SourceUnavailable
    /\ UNCHANGED <<readResult, weatherCache, fetched, collectResult>>

\* CurrencyRatesCollector.read(): a fresh answer of the source, else the
\* cache file, else SourceUnavailable
CurrencyRead ==
    /\ \/ \E payload \in SourcePayloads :
            readResult' = Returned(CurrencyRatesDTO(payload.base, payload.date, payload.rates))
       \/ /\ cacheFile # NoObj
          /\ LET cached == JsonLoads(cacheFile.returned)
             IN  readResult' = Returned(CurrencyRatesDTO(cached.base, cached.date, cached.rates))
       \/ /\ cacheFile = NoObj
          /\ readResult' = Raised("SourceUnavailable")
    /\ UNCHANGED <<cacheFile, weatherCache, fetched, collectResult>>

\* the locations of the tests and the answers of the weather source
Locations ==
    {[capital |-> "Moscow", alpha2code |-> "RU"],
     [capital |-> "Mariehamn", alpha2code |-> "AX"]}
WeatherPayloads ==
    {WeatherInfoDTO(Datetime("30.03.2023", 12, 23, 34)),
     WeatherInfoDTO(Datetime("30.03.2023", 13, 23, 34))}

\* a mutant of WeatherCollectValue: the payloads handed back to the caller
WeatherCollectValueFetched(answers) == Mapping(answers)

\* what WeatherCollector.collect hands to its caller: nothing
WeatherCollectValue(answers) == None

\* WeatherCollector.collect(locations): one fetch for each location of the
\* set, each answer written to the cache over the entry of its location; an
\* unreachable source is surfaced to the caller, the entries written before
\* it stay
WeatherCollect ==
    \E locations \in SUBSET Locations :
        \/ \E answers \in [locations -> WeatherPayloads] :
              /\ fetched' = Returned(answers)
              /\ weatherCache' = [l \in Locations |->
                     IF l \in locations THEN answers[l] ELSE weatherCache[l]]
              /\ collectResult' = Returned(WeatherCollectValue(answers))
              /\ UNCHANGED <<cacheFile, readResult>>
        \/ \E done \in SUBSET locations :
              /\ done # locations
              /\ \E answers \in [done -> WeatherPayloads] :
                    /\ fetched' = Returned(answers)
                    /\ weatherCache' = [l \in Locations |->
                           IF l \in done THEN answers[l] ELSE weatherCache[l]]
              /\ collectResult' = Raised("SourceUnavailable")
              /\ UNCHANGED <<cacheFile, readResult>>

InitCollect ==
    /\ cacheFile = NoObj
    /\ readResult = NoObj
    /\ weatherCache = [l \in Locations |-> NoObj]
    /\ fetched = NoObj
    /\ collectResult = NoObj

InitKeys ==
    /\ locs = [i \in ObjIds |-> NoObj]
    /\ lastOp = "none"
    /\ fset = <<>>

InitAll ==
    /\ InitKeys
    /\ InitModels
    /\ NoRenderer
    /\ InitCollect

NextKeys ==
    \/ NewLocationDTO /\ UNCHANGED <<modelVars, renderVars, collectVars>>
    \/ SetAttr /\ UNCHANGED <<modelVars, renderVars, collectVars>>
    \/ NewFrozenset /\ UNCHANGED <<modelVars, renderVars, collectVars>>

SpecKeys == InitAll /\ [][NextKeys]_vars

NextModels ==
    \/ NewNewsDTO /\ UNCHANGED <<keyVars, renderVars, collectVars>>
    \/ NewLocationInfoDTO /\ UNCHANGED <<keyVars, renderVars, collectVars>>

SpecModels == InitAll /\ [][NextModels]_vars

InitRenderer ==
    /\ InitKeys
    /\ InitModels
    /\ InitRender
    /\ InitCollect

NextRender ==
    \/ Render /\ UNCHANGED <<keyVars, modelVars, collectVars>>
    \/ FormatCurrencyRates /\ UNCHANGED <<keyVars, modelVars, collectVars>>

SpecRender == InitRenderer /\ [][NextRender]_vars

NextCollect ==
    \/ CurrencyCollect /\ UNCHANGED <<keyVars, modelVars, renderVars>>
    \/ CurrencyRead /\ UNCHANGED <<keyVars, modelVars, renderVars>>
    \/ WeatherCollect /\ UNCHANGED <<keyVars, modelVars, renderVars>>

SpecCollect == InitAll /\ [][NextCollect]_vars

-----------------------------------------------------------------------------
(* Claims about LocationDTO, under SpecKeys *)

\* C3: every LocationDTO that exists has an alpha2code of length exactly 2,
\* in every reachable state, also after a later assignment to its fields.
C3_Alpha2codeLengthIsTwo ==
    \A i \in Allocated : Len(locs[i].alpha2code) = 2

\* C4: two keys are equal iff they have the same capital and alpha2code, and
\* equal keys have equal hashes; so the frozenset built from any sequence of
\* keys holds exactly one element for each distinct (capital, alpha2code) of
\* the sequence, and a collect over it dispatches once per distinct location.
OnePerDistinctKey(s, table) ==
    /\ \A e \in DOMAIN table : table[e].obj \in Range(s)
    /\ \A i \in Range(s) :
          Cardinality({e \in DOMAIN table :
              /\ locs[table[e].obj].capital = locs[i].capital
              /\ locs[table[e].obj].alpha2code = locs[i].alpha2code}) = 1

C4_ValueEqualHashConsistent ==
    /\ \A i, j \in Allocated :
          /\ Eq(i, j) <=> /\ locs[i].capital = locs[j].capital
                          /\ locs[i].alpha2code = locs[j].alpha2code
          /\ Eq(i, j) => Hash(i) = Hash(j)
    /\ \A s \in SeqsUpTo(Allocated, MaxSeq) : OnePerDistinctKey(s, Frozenset(s))
    /\ lastOp = "frozenset" =>
          /\ Len(Dispatch(fset)) = Cardinality({locs[fset[e].obj] : e \in DOMAIN fset})
          /\ \A e1, e2 \in DOMAIN fset :
                e1 # e2 => Dispatch(fset)[e1] # Dispatch(fset)[e2]

\* C4 witness: a set was built while two distinct objects are equal by value;
\* it holds one of them and the other is found in it.
C4_Witness ==
    /\ lastOp = "frozenset"
    /\ Len(fset) = 1
    /\ \E i, j \in Allocated :
          i # j /\ Eq(i, j) /\ fset[1].obj = i /\ Contains(fset, j)

\* C5: a LocationDTO is immutable: no operation changes the capital or the
\* alpha2code of a live object, so a key that was inserted into a set is still
\* found in that set whatever happens later.
MembersFound == \A e \in DOMAIN fset : Contains(fset, fset[e].obj)

C5_Immutable ==
    [][/\ \A i \in Allocated : locs'[i] = locs[i]
       /\ MembersFound']_vars

-----------------------------------------------------------------------------
(* Claims about NewsDTO and LocationInfoDTO, under SpecModels *)

\* C1: every NewsDTO that construction accepts has an author that is neither
\* None nor "": an author that was missing, None or "" became "unknown", and
\* any other author was kept.
C1_AuthorNeverNoneOrEmpty ==
    article # NoObj =>
        /\ article.author # None
        /\ article.author # Str("")
        /\ IF newsArgs.author \in {Missing, None, Str("")}
           THEN article.author = Str("unknown")
           ELSE article.author = newsArgs.author

Supplied(kw, f) == kw[f] # Missing /\ kw[f] # None

\* C2 as stated: a LocationInfoDTO is accepted exactly when location and
\* weather are both present and not None (whatever news and currency_rates).
C2_AcceptedIffLocationAndWeather ==
    infoArgs # NoObj =>
        (info # NoObj <=>
            Supplied(infoArgs, "location") /\ Supplied(infoArgs, "weather"))

\* C2 amended: a LocationInfoDTO is accepted exactly when location, weather
\* and currency_rates are all present and not None; currency_rates may be
\* empty, and news may be absent, None or empty.
C2_AcceptedIffRequiredSupplied ==
    infoArgs # NoObj =>
        /\ info # NoObj <=>
              /\ Supplied(infoArgs, "location")
              /\ Supplied(infoArgs, "weather")
              /\ Supplied(infoArgs, "currency_rates")
        /\ info # NoObj =>
              /\ info.location = infoArgs.location
              /\ info.weather = infoArgs.weather
              /\ info.currency_rates = infoArgs.currency_rates
              /\ info.news = IF infoArgs.news = Missing THEN None ELSE infoArgs.news

\* C2 witness: an aggregate was accepted with news absent and no currency rate
C2_Witness ==
    /\ info # NoObj
    /\ infoArgs.news = Missing
    /\ infoArgs.currency_rates = Mapping(<<>>)
    /\ info.news = None

-----------------------------------------------------------------------------
(* Claims about the Renderer, under SpecRender *)

\* C8: _format_currency_rates renders every entry code -> rate as
\* "code = r rub.", r being the rate's decimal value rounded half-up to two
\* places (0.015 -> 0.02), joined with ", " in the mapping's order; an empty
\* mapping renders as the empty text.
C8_HalfUpOfDecimalValue ==
    ratesText # NoObj =>
        ratesText.returned =
            Join(", ", [i \in DOMAIN location_info.currency_rates.items |->
                RateCell(location_info.currency_rates.items[i][1],
                         HalfUpOfDecimal(location_info.currency_rates.items[i][2]))])

\* C9: render returns its five-part output, without an error, for every
\* aggregate that is valid by the data model.
C9_RenderReturns ==
    rendered # NoObj =>
        /\ DOMAIN rendered = {"returned"}
        /\ Len(rendered.returned) = 5

\* C10: for an aggregate whose news is a list of n articles, the news table
\* of render has exactly n rows, and row i shows the source, title, author,
\* url, description and published_at of news[i].
C10_NewsRowsInOrder ==
    (rendered # NoObj /\ DOMAIN rendered = {"returned"}) =>
        LET rows == rendered.returned[5].rows
            news == location_info.news.items
        IN  /\ Len(rows) = Len(news)
            /\ \A i \in 1..Len(news) :
                  /\ Len(rows[i]) = 6
                  /\ rows[i][1] = news[i].source.val
                  /\ rows[i][2] = news[i].title.val
                  /\ rows[i][3] = Format(news[i].author)
                  /\ rows[i][4] = news[i].url.val
                  /\ rows[i][5] = news[i].description.val
                  /\ rows[i][6].date = news[i].published_at.date
                  /\ rows[i][6].hour = news[i].published_at.hour
                  /\ rows[i][6].minute = news[i].published_at.minute

\* C10 witness: render returned for an aggregate with two different articles
C10_Witness ==
    /\ rendered # NoObj
    /\ DOMAIN rendered = {"returned"}
    /\ Len(location_info.news.items) = 2
    /\ location_info.news.items[1] # location_info.news.items[2]
    /\ Len(rendered.returned[5].rows) = 2

-----------------------------------------------------------------------------
(* Claims about the collectors, under SpecCollect *)

C7_WeatherCollectReturnsNone ==
    (collectResult # NoObj /\ DOMAIN collectResult = {"returned"}) =>
        /\ collectResult.returned = None
        /\ \A l \in DOMAIN fetched.returned : weatherCache[l] = fetched.returned[l]

\* C7 witness: a collect over both locations returned
C7_Witness ==
    /\ collectResult # NoObj
    /\ DOMAIN collectResult = {"returned"}
    /\ DOMAIN fetched.returned = Locations
    /\ \A l \in Locations : weatherCache[l] # NoObj

=============================================================================
